---- MODULE Spec2Model ----
(***************************************************************************)
(* Model of polynomial_visualizer.py: the geometry helpers (cubic_poly,    *)
(* cubic_poly_derivative, build_centerline, make_road_mesh) and the        *)
(* slider / Reset callbacks that redraw the road.                          *)
(*                                                                         *)
(* Numbers.  The arrays of the program hold float64 values.  A number of   *)
(* the model is NaN, a signed infinity, or a finite sum of terms           *)
(*        (n / d) * sqrt(m) * 10^e                                         *)
(* with m squarefree, kept in a canonical form (terms sorted by m, n/d in  *)
(* lowest terms, d coprime to 10, n not a multiple of 10), so that equal   *)
(* values are equal records.  Finite arithmetic is exact except where      *)
(* float64 itself cannot be: a result whose decimal exponent passes MaxExp *)
(* overflows to infinity, one below MinExp underflows to zero, and a term  *)
(* more than AbsorbGap decimal orders below the leading one is absorbed    *)
(* (it is below half an ulp of the sum).  Rounding in the last place of    *)
(* ordinary-magnitude results is not modelled.  An operation outside this  *)
(* number system (e.g. the square root of an irrational) has no value, and *)
(* TLC stops on it rather than continue with a wrong one.                  *)
(***************************************************************************)
EXTENDS Integers, Sequences, FiniteSets, TLC

\* float64: largest / smallest decimal exponent, and the decimal gap beyond
\* which the smaller operand of a sum is certainly lost (2^53 < 10^16).
MaxExp == 308
MinExp == -324
AbsorbGap == 40

Abs(x) == IF x < 0 THEN -x ELSE x
Sgn(x) == IF x < 0 THEN -1 ELSE IF x > 0 THEN 1 ELSE 0
Min2(x, y) == IF x < y THEN x ELSE y
Max2(x, y) == IF x < y THEN y ELSE x

RECURSIVE Gcd(_, _)
Gcd(x, y) == IF y = 0 THEN x ELSE Gcd(y, x % y)

\* n # 0: move the factors of ten of n into the exponent
RECURSIVE StripTens(_, _)
StripTens(n, e) == IF n % 10 = 0 THEN StripTens(n \div 10, e + 1) ELSE <<n, e>>

\* make the denominator coprime to ten (1/2 = 5/10, 1/5 = 2/10)
RECURSIVE ClearDen(_, _, _)
ClearDen(n, d, e) ==
    IF d % 2 = 0 THEN ClearDen(n * 5, d \div 2, e - 1)
    ELSE IF d % 5 = 0 THEN ClearDen(n * 2, d \div 5, e - 1)
    ELSE <<n, d, e>>

\* the canonical term for (n/d) * sqrt(m) * 10^e, n # 0, d > 0, m squarefree
MkTerm(n, d, m, e) ==
    LET g == Gcd(Abs(n), d)
        c == ClearDen(Abs(n) \div g, d \div g, e)
        s == StripTens(c[1], c[3])
    IN  [n |-> Sgn(n) * s[1], d |-> c[2], m |-> m, e |-> s[2]]

NaN == [k |-> "nan", t |-> <<>>]
Inf(sg) == [k |-> "inf", t |-> <<[n |-> sg, d |-> 1, m |-> 1, e |-> 0]>>]
Zero == [k |-> "fin", t |-> <<>>]

IsNaN(x) == x.k = "nan"
IsInf(x) == x.k = "inf"
IsFinite(x) == x.k = "fin"
IsZero(x) == x.k = "fin" /\ x.t = <<>>
\* a finite number with at most one term: zero or (n/d) sqrt(m) 10^e
IsSimple(x) == x.k = "fin" /\ Len(x.t) <= 1

RECURSIVE MaxE(_)
MaxE(t) == IF Len(t) = 1 THEN t[1].e ELSE Max2(t[1].e, MaxE(Tail(t)))

RECURSIVE KeepFrom(_, _)
KeepFrom(t, lo) ==
    IF t = <<>> THEN <<>>
    ELSE IF t[1].e < lo THEN KeepFrom(Tail(t), lo)
    ELSE <<t[1]>> \o KeepFrom(Tail(t), lo)

RECURSIVE FirstOver(_)
FirstOver(t) == IF t[1].e > MaxExp THEN t[1] ELSE FirstOver(Tail(t))

\* the float64 range applied to an exact sum of terms
Finish(t) ==
    IF t = <<>> THEN Zero
    ELSE IF MaxE(t) > MaxExp THEN Inf(Sgn(FirstOver(t).n))
    ELSE [k |-> "fin", t |-> KeepFrom(t, Max2(MinExp, MaxE(t) - AbsorbGap))]

\* the number (n/d) * 10^e
Rat(n, d, e) == IF n = 0 THEN Zero ELSE Finish(<<MkTerm(n, d, 1, e)>>)
Int2Num(n) == Rat(n, 1, 0)

\* the sign of a number with at most one term, or of an infinity
Sign(x) ==
    CASE x.k = "inf" -> x.t[1].n
      [] x.k = "fin" /\ x.t = <<>> -> 0
      [] x.k = "fin" /\ Len(x.t) = 1 -> Sgn(x.t[1].n)

\* two terms of the same radicand added; <<>> when they cancel
AddSame(a, b) ==
    IF a.e - b.e > AbsorbGap THEN <<a>>
    ELSE IF b.e - a.e > AbsorbGap THEN <<b>>
    ELSE LET em == Min2(a.e, b.e)
             g  == Gcd(a.d, b.d)
             nn == a.n * (b.d \div g) * 10^(a.e - em) + b.n * (a.d \div g) * 10^(b.e - em)
         IN  IF nn = 0 THEN <<>> ELSE <<MkTerm(nn, (a.d \div g) * b.d, a.m, em)>>

RECURSIVE Merge(_, _)
Merge(s, t) ==
    IF s = <<>> THEN t
    ELSE IF t = <<>> THEN s
    ELSE IF s[1].m < t[1].m THEN <<s[1]>> \o Merge(Tail(s), t)
    ELSE IF t[1].m < s[1].m THEN <<t[1]>> \o Merge(s, Tail(t))
    ELSE AddSame(s[1], t[1]) \o Merge(Tail(s), Tail(t))

Add(x, y) ==
    CASE IsNaN(x) \/ IsNaN(y) -> NaN
      [] IsInf(x) /\ IsInf(y) -> IF x = y THEN x ELSE NaN
      [] IsInf(x) /\ IsFinite(y) -> x
      [] IsFinite(x) /\ IsInf(y) -> y
      [] IsFinite(x) /\ IsFinite(y) -> Finish(Merge(x.t, y.t))

NegTerms(t) == [i \in 1..Len(t) |-> [t[i] EXCEPT !.n = -t[i].n]]
Neg(x) == IF IsNaN(x) THEN NaN ELSE [x EXCEPT !.t = NegTerms(x.t)]
Sub(x, y) == Add(x, Neg(y))

\* sqrt(m1) sqrt(m2) = g sqrt((m1/g)(m2/g)), g = gcd(m1, m2); common factors
\* are cancelled before the products are formed
TMul(a, b) ==
    LET g  == Gcd(a.m, b.m)
        g1 == Gcd(Abs(a.n), b.d)
        g2 == Gcd(Abs(b.n), a.d)
        da == a.d \div g2
        db == b.d \div g1
        g3 == Gcd(g, da)
        g4 == Gcd(g \div g3, db)
    IN  MkTerm((a.n \div g1) * (b.n \div g2) * ((g \div g3) \div g4),
               (da \div g3) * (db \div g4),
               (a.m \div g) * (b.m \div g), a.e + b.e)

RECURSIVE MulTerm(_, _)
MulTerm(a, t) == IF t = <<>> THEN <<>> ELSE Merge(<<TMul(a, t[1])>>, MulTerm(a, Tail(t)))

RECURSIVE MulTerms(_, _)
MulTerms(s, t) == IF s = <<>> THEN <<>> ELSE Merge(MulTerm(s[1], t), MulTerms(Tail(s), t))

Mul(x, y) ==
    CASE IsNaN(x) \/ IsNaN(y) -> NaN
      [] IsInf(x) /\ IsInf(y) -> Inf(Sign(x) * Sign(y))
      [] IsInf(x) /\ IsFinite(y) -> IF IsZero(y) THEN NaN ELSE Inf(Sign(x) * Sign(y))
      [] IsFinite(x) /\ IsInf(y) -> IF IsZero(x) THEN NaN ELSE Inf(Sign(x) * Sign(y))
      [] IsFinite(x) /\ IsFinite(y) -> Finish(MulTerms(x.t, y.t))

\* 1 / ((n/d) sqrt(m) 10^e) = (d / (n m)) sqrt(m) 10^-e
TInv(a) == MkTerm(Sgn(a.n) * a.d, Abs(a.n) * a.m, a.m, -a.e)

\* x / y as numpy divides: x/0 is a signed infinity (0/0 is NaN), x/inf is 0
Div(x, y) ==
    CASE IsNaN(x) \/ IsNaN(y) -> NaN
      [] IsInf(y) -> IF IsInf(x) THEN NaN ELSE Zero
      [] IsZero(y) -> IF IsZero(x) THEN NaN ELSE Inf(Sign(x))
      [] IsFinite(y) /\ Len(y.t) = 1 ->
           IF IsInf(x) THEN Inf(Sign(x) * Sign(y))
           ELSE Finish(MulTerms(x.t, <<TInv(y.t[1])>>))

\* the largest r in lo..hi with r*r <= k (lo*lo <= k), by bisection
RECURSIVE IsqrtIn(_, _, _)
IsqrtIn(k, lo, hi) ==
    IF lo = hi THEN lo
    ELSE LET mid == (lo + hi + 1) \div 2
         IN  IF mid * mid <= k THEN IsqrtIn(k, mid, hi) ELSE IsqrtIn(k, lo, mid - 1)

\* floor(sqrt(k)) for k >= 1; 46340 is the largest root of a 32-bit integer
Isqrt(k) == IsqrtIn(k, 1, Min2(k, 46340))

\* k = f*f*m with m squarefree: f is the largest f whose square divides k
SqDecomp(k) ==
    LET S == {f \in 1..Isqrt(k) : k % (f * f) = 0}
        f == CHOOSE x \in S : \A y \in S : y <= x
    IN  <<f, k \div (f * f)>>

\* sqrt((n/d) 10^e), n > 0
TSqrt(a) ==
    LET odd == a.e % 2 = 1
        nn  == IF odd THEN a.n * 10 ELSE a.n
        ee  == IF odd THEN a.e - 1 ELSE a.e
        u   == SqDecomp(nn)
        v   == SqDecomp(a.d)
        g   == Gcd(u[2], v[2])
    IN  MkTerm(u[1] * g, v[1] * v[2], (u[2] \div g) * (v[2] \div g), ee \div 2)

\* np.sqrt of a rational: sqrt of a negative number is NaN
Sqrt(x) ==
    CASE IsNaN(x) -> NaN
      [] IsInf(x) -> IF Sign(x) > 0 THEN x ELSE NaN
      [] IsZero(x) -> Zero
      [] IsFinite(x) /\ Len(x.t) = 1 /\ x.t[1].m = 1 ->
           IF x.t[1].n < 0 THEN NaN ELSE Finish(<<TSqrt(x.t[1])>>)

\* x * 10^k >= y for positive integers x, y and any integer k
GeScaled(x, k, y) ==
    IF k >= 0 THEN k >= 10 \/ 10^k >= (y + x - 1) \div x
    ELSE k > -10 /\ x \div 10^(-k) >= y

\* the number of decimal digits of m >= 1, so that m < 10^Digits(m)
RECURSIVE Digits(_)
Digits(m) == IF m < 10 THEN 1 ELSE 1 + Digits(m \div 10)

\* r < 1 for a positive term r = (n/d) sqrt(m) 10^e.  As 1 <= sqrt(m) < 10^k
\* for k = Digits(m), n 10^e >= d gives r >= 1 and n 10^(e+k) < d gives r < 1;
\* in between the squares are compared: n n m 10^(2e) < d d.
TBelowOne(r) ==
    IF GeScaled(r.n, r.e, r.d) THEN FALSE
    ELSE IF r.m = 1 \/ ~GeScaled(r.n, r.e + Digits(r.m), r.d) THEN TRUE
    ELSE IF r.e >= 0 THEN r.n * r.n * r.m * 10^(2 * r.e) < r.d * r.d
    ELSE r.n * r.n * r.m < r.d * r.d * 10^(-2 * r.e)

\* x < y for numbers of at most one term; any comparison with NaN is false
Less(x, y) ==
    CASE IsNaN(x) \/ IsNaN(y) -> FALSE
      [] IsInf(x) \/ IsInf(y) \/ IsZero(x) \/ IsZero(y) \/ Sign(x) # Sign(y) ->
           IF IsInf(x) /\ IsInf(y) THEN Sign(x) < Sign(y)
           ELSE IF IsInf(x) THEN Sign(x) < 0
           ELSE IF IsInf(y) THEN Sign(y) > 0
           ELSE Sign(x) < Sign(y)
      [] OTHER ->
           LET r == TMul(x.t[1], TInv(y.t[1]))
               p == [r EXCEPT !.n = Abs(r.n)]
           IN  IF Sign(x) > 0 THEN TBelowOne(p)
               ELSE ~TBelowOne(p) /\ x # y


One == Int2Num(1)
Two == Int2Num(2)
Three == Int2Num(3)

\* x ** k for a small integer k >= 1, by repeated multiplication
RECURSIVE Pow(_, _)
Pow(x, k) == IF k = 1 THEN x ELSE Mul(Pow(x, k - 1), x)

(***************************************************************************)
(* Geometry helpers.  An array is a sequence of numbers; the operators     *)
(* below work on array VALUES, the buffers that hold them are tracked by   *)
(* the actions.                                                            *)
(***************************************************************************)
\* a new array holding the values of f: its elements are computed once, when
\* the array is made, like those of a numpy array
array(f) == f \o <<>>

zeros_like(s) == array([i \in 1..Len(s) |-> Zero])
ones_like(s) == array([i \in 1..Len(s) |-> One])

\* return a + b*s + c*s**2 + d*s**3
cubic_poly(s, a, b, c, d) ==
    array([i \in 1..Len(s) |->
        Add(Add(Add(a, Mul(b, s[i])), Mul(c, Pow(s[i], 2))), Mul(d, Pow(s[i], 3)))])

\* the derivative with the factor 2 of the quadratic term forgotten
cubic_poly_derivative_no2(s, b, c, d) ==
    array([i \in 1..Len(s) |->
        Add(Add(b, Mul(c, s[i])), Mul(Mul(Three, d), Pow(s[i], 2)))])

\* return b + 2.0*c*s + 3.0*d*s**2
cubic_poly_derivative(s, b, c, d) ==
    array([i \in 1..Len(s) |->
        Add(Add(b, Mul(Mul(Two, c), s[i])), Mul(Mul(Three, d), Pow(s[i], 2)))])

\* small = 1e-8
small == Rat(1, 1, -8)

\* the divisor without the guard against tiny norms
where_small_unguarded(Lnorm) == Lnorm

\* np.where(Lnorm < small, 1.0, Lnorm)
where_small(Lnorm) ==
    array([i \in 1..Len(Lnorm) |-> IF Less(Lnorm[i], small) THEN One ELSE Lnorm[i]])

\* np.sqrt(x*x + y*y + z*z)
norm3(x, y, z) ==
    array([i \in 1..Len(x) |->
        Sqrt(Add(Add(Mul(x[i], x[i]), Mul(y[i], y[i])), Mul(z[i], z[i])))])

\* u /= v
idiv(u, v) == array([i \in 1..Len(u) |-> Div(u[i], v[i])])

\* p * x - q * y for scalars p, q and arrays x, y
cross_term(p, x, q, y) == array([i \in 1..Len(x) |-> Sub(Mul(p, x[i]), Mul(q, y[i]))])

\* Each argument of an operator is evaluated once, so build_centerline is
\* written as the chain of its blocks, each handing its arrays to the next.

\* Lnorm = np.where(Lnorm < small, 1.0, Lnorm); Lx /= Lnorm; ...; return
bc_normalise(r, Lnorm) ==
    [Xc |-> r.Xc, Yc |-> r.Yc, Zc |-> r.Zc,
     Lx |-> idiv(r.Lpx, Lnorm), Ly |-> idiv(r.Lpy, Lnorm), Lz |-> idiv(r.Lpz, Lnorm),
     dZds0 |-> r.dZds0, Tnorm |-> r.Tnorm, Tx |-> r.Tx, Ty |-> r.Ty, Tz |-> r.Tz,
     Lpx |-> r.Lpx, Lpy |-> r.Lpy, Lpz |-> r.Lpz, Lnorm0 |-> r.Lnorm0, Lnorm |-> Lnorm]

\* Lnorm = np.sqrt(Lx*Lx + Ly*Ly + Lz*Lz)
bc_lnorm(r, Lnorm0) == bc_normalise([r EXCEPT !.Lnorm0 = Lnorm0], where_small(Lnorm0))

\* the cross product with Tx in the place of Ty in its first component
bc_left_swapped(r, Ux, Uy, Uz) ==
    bc_lnorm([r EXCEPT !.Lpx = cross_term(Uy, r.Tz, Uz, r.Tx),
                       !.Lpy = cross_term(Uz, r.Tx, Ux, r.Tz),
                       !.Lpz = cross_term(Ux, r.Ty, Uy, r.Tx)],
             norm3(cross_term(Uy, r.Tz, Uz, r.Tx), cross_term(Uz, r.Tx, Ux, r.Tz),
                   cross_term(Ux, r.Ty, Uy, r.Tx)))

\* U = (0,0,1); Lx = Uy*Tz - Uz*Ty; Ly = Uz*Tx - Ux*Tz; Lz = Ux*Ty - Uy*Tx
bc_left(r, Ux, Uy, Uz) ==
    bc_lnorm([r EXCEPT !.Lpx = cross_term(Uy, r.Tz, Uz, r.Ty),
                       !.Lpy = cross_term(Uz, r.Tx, Ux, r.Tz),
                       !.Lpz = cross_term(Ux, r.Ty, Uy, r.Tx)],
             norm3(cross_term(Uy, r.Tz, Uz, r.Ty), cross_term(Uz, r.Tx, Ux, r.Tz),
                   cross_term(Ux, r.Ty, Uy, r.Tx)))

\* Tx = np.ones_like(s); Ty = dYds; Tz = dZds; Tnorm = np.sqrt(..);
\* Tx /= Tnorm; Ty /= Tnorm; Tz /= Tnorm
bc_tangent(Xc, Yc, Zc, dYds, dZds, Tnorm) ==
    bc_left([Xc |-> Xc, Yc |-> Yc, Zc |-> Zc, dZds0 |-> dZds, Tnorm |-> Tnorm,
             Tx |-> idiv(ones_like(Xc), Tnorm), Ty |-> idiv(dYds, Tnorm),
             Tz |-> idiv(dZds, Tnorm),
             Lpx |-> <<>>, Lpy |-> <<>>, Lpz |-> <<>>, Lnorm0 |-> <<>>],
            Zero, Zero, One)

bc_curve(Xc, Yc, Zc, dYds, dZds) ==
    bc_tangent(Xc, Yc, Zc, dYds, dZds, norm3(ones_like(Xc), dYds, dZds))

\* lat is what lateral_func(s) handed back ([given |-> FALSE] for None).
\* The result holds the six returned arrays and, for the claims, the locals
\* at the return: dZds0 is cubic_poly_derivative's value, Ty the final
\* content of the buffer Ty and dYds share, Lpx.. the cross product U x T,
\* Lnorm0 its norm and Lnorm the divisor after np.where.
build_centerline(s, a, b, c, d, lat) ==
    bc_curve(s,
             IF lat.given THEN lat.y ELSE zeros_like(s),
             cubic_poly(s, a, b, c, d),
             IF lat.given THEN lat.dy ELSE zeros_like(s),
             cubic_poly_derivative(s, b, c, d))

\* c + h * l and c - h * l, element-wise
rail_left(c, h, l) == array([i \in 1..Len(c) |-> Add(c[i], Mul(h, l[i]))])
\* the right rail offset to the left side
rail_right_plus(c, h, l) == array([i \in 1..Len(c) |-> Add(c[i], Mul(h, l[i]))])
rail_right(c, h, l) == array([i \in 1..Len(c) |-> Sub(c[i], Mul(h, l[i]))])

\* np.vstack((u, v)): a 2 x N array, row 1 = u, row 2 = v
vstack(u, v) == <<u, v>>

\* X = np.vstack((left_x, right_x)) ...; return X, Y, Z
mesh_stack(Xc, Yc, Zc, Lx, Ly, Lz, half) ==
    [X |-> vstack(rail_left(Xc, half, Lx), rail_right(Xc, half, Lx)),
     Y |-> vstack(rail_left(Yc, half, Ly), rail_right(Yc, half, Ly)),
     Z |-> vstack(rail_left(Zc, half, Lz), rail_right(Zc, half, Lz))]

\* the rails offset by the whole width instead of half of it
make_road_mesh_full(Xc, Yc, Zc, Lx, Ly, Lz, width) ==
    mesh_stack(Xc, Yc, Zc, Lx, Ly, Lz, width)

\* half = width / 2.0
make_road_mesh(Xc, Yc, Zc, Lx, Ly, Lz, width) ==
    mesh_stack(Xc, Yc, Zc, Lx, Ly, Lz, Div(width, Two))

\* number of samples (600 in the program) and np.linspace(lo, hi, NS)
NS == 3
linspace(lo, hi, n) == array([i \in 1..n |-> Rat(lo * (n - i) + hi * (i - 1), n - 1, 0)])

\* s = np.linspace(0.0, 100.0, 600); width = 6.0
s == linspace(0, 100, NS)
width == Int2Num(6)


\* initial coefficients a0, b0, c0, d0 = 0.0, 0.02, 0.001, -1e-5
a0 == Zero
b0 == Rat(2, 1, -2)
c0 == Rat(1, 1, -3)
d0 == Rat(-1, 1, -5)

VARIABLES
    heap,   \* the numpy buffers: heap[r] is the content of buffer r
    fn,     \* the arguments of the calls: coefficients, width, the buffer of s,
            \* the lateral function
    pc,     \* "ready": build_centerline is called next; "built": make_road_mesh
    cur,    \* what the last build_centerline returned (buffers) and its locals
    outs,   \* the completed runs of build_centerline -> make_road_mesh
    last,   \* the last call: its input and output buffers, the heap it started on
    ui      \* the figure: slider values, the artists on the axes, the module's
            \* references road_surf / center_line / lane_mark, the redraw request
            \* and the event whose callbacks ran last

vars == <<heap, fn, pc, cur, outs, last, ui>>

(***************************************************************************)
(* The figure and its callbacks                                            *)
(***************************************************************************)
Sliders == {"a", "b", "c", "d"}

\* Slider(..., valinit=a0) etc.
valinit == [a |-> a0, b |-> b0, c |-> c0, d |-> d0]

\* positions the sliders are dragged to, inside each slider's range
\* (a: -50..50, b: -0.15..0.15, c: -0.02..0.02, d: -0.0002..0.0002)
SliderVals ==
    [a |-> {a0, Int2Num(5), Int2Num(-50)},
     b |-> {b0, Rat(-15, 1, -2)},
     c |-> {c0, Rat(2, 1, -2)},
     d |-> {d0, Zero}]

\* x + 0.01 element-wise (the lane marking floats just above the centerline)
lift(z) == array([i \in 1..Len(z) |-> Add(z[i], Rat(1, 1, -2))])

\* float(np.min(z)), float(np.max(z))
np_min(z) == CHOOSE x \in {z[i] : i \in 1..Len(z)} : \A i \in 1..Len(z) : ~Less(z[i], x)
np_max(z) == CHOOSE x \in {z[i] : i \in 1..Len(z)} : \A i \in 1..Len(z) : ~Less(x, z[i])

\* a new object: an identity no live object has
fresh(live) == CHOOSE i \in 1..(Cardinality(live) + 1) : i \notin live

ids(artists) == {x.id : x \in artists}

\* a removal that leaves the artist on the axes
remove_kept(artists, id) == artists

\* artist.remove() inside try/except: the artist leaves the axes; removing one
\* that is not there raises, and the exception is swallowed
remove(artists, id) == {x \in artists : x.id # id}

\* road_surf = ax.plot_surface(Xmesh, Ymesh, Zmesh, ...)
\* center_line = ax.plot(Xc, Yc, Zc, ...)[0]
\* lane_mark = ax.plot(Xc, Yc, Zc + 0.01, ...)[0]
\* ax.set_zlim(min(Zc) - zoff, max(Zc) + zoff)
\* Each call puts one new artist on the axes and rebinds the module's name.
plot_road(u, g, m, zoff) ==
    LET iS == fresh(ids(u.artists) \cup {u.road_surf, u.center_line, u.lane_mark})
        iC == fresh(ids(u.artists) \cup {iS, u.center_line, u.lane_mark})
        iL == fresh(ids(u.artists) \cup {iS, iC, u.lane_mark})
    IN  [u EXCEPT !.artists = u.artists \cup
                      {[id |-> iS, kind |-> "surface", data |-> <<m.X, m.Y, m.Z>>],
                       [id |-> iC, kind |-> "line", data |-> <<g.Xc, g.Yc, g.Zc>>],
                       [id |-> iL, kind |-> "line", data |-> <<g.Xc, g.Yc, lift(g.Zc)>>]},
                  !.road_surf = iS, !.center_line = iC, !.lane_mark = iL,
                  !.zlim = <<Sub(np_min(g.Zc), zoff), Add(np_max(g.Zc), zoff)>>]

\* Xmesh, Ymesh, Zmesh = make_road_mesh(Xc, Yc, Zc, Lx, Ly, Lz, width)
plot_mesh(u, g, zoff) ==
    plot_road(u, g, make_road_mesh(g.Xc, g.Yc, g.Zc, g.Lx, g.Ly, g.Lz, width), zoff)

\* Xc, Yc, Zc, Lx, Ly, Lz = build_centerline(s, a, b, c, d)
plot_all(u, a, b, c, d, zoff) ==
    plot_mesh(u, build_centerline(s, a, b, c, d, [given |-> FALSE]), zoff)

\* the module body up to plt.show(): empty axes, the initial plot, the sliders
ui0 ==
    plot_all([val |-> valinit, artists |-> {}, road_surf |-> 0, center_line |-> 0,
              lane_mark |-> 0, zlim |-> <<Zero, One>>, redraw |-> FALSE,
              event |-> "none"],
             a0, b0, c0, d0, Int2Num(5))

\* def update(val): remove the previous artists, rebuild, replot, draw_idle()
update(u) ==
    [plot_all([u EXCEPT !.artists = remove(remove(remove(u.artists, u.road_surf),
                                                  u.center_line), u.lane_mark)],
              u.val.a, u.val.b, u.val.c, u.val.d, Int2Num(6))
     EXCEPT !.redraw = TRUE]

\* Slider.set_val(v): store the value, then run the on_changed observers
set_val(u, k, v) == update([u EXCEPT !.val[k] = v])

\* a reset that stores valinit without running the observers
slider_reset_silent(u, k) == [u EXCEPT !.val[k] = valinit[k]]

\* Slider.reset(): set_val(valinit) unless the slider already is at valinit
slider_reset(u, k) == IF u.val[k] # valinit[k] THEN set_val(u, k, valinit[k]) ELSE u

\* def reset(event): s_a.reset(); s_b.reset(); s_c.reset(); s_d.reset()
reset(u) == slider_reset(slider_reset(slider_reset(slider_reset(u, "a"), "b"), "c"), "d")

\* the user drags slider k to another position v
SliderChanged(k, v) ==
    /\ v # ui.val[k]
    /\ ui' = [set_val(ui, k, v) EXCEPT !.event = "changed"]
    /\ UNCHANGED <<heap, fn, pc, cur, outs, last>>

\* the user clicks Reset
ResetClicked ==
    /\ ui' = [reset(ui) EXCEPT !.event = "clicked"]
    /\ UNCHANGED <<heap, fn, pc, cur, outs, last>>

\* the GUI loop performs the redraw that fig.canvas.draw_idle() asked for
Draw ==
    /\ ui.redraw
    /\ ui' = [ui EXCEPT !.redraw = FALSE]
    /\ UNCHANGED <<heap, fn, pc, cur, outs, last>>

(***************************************************************************)
(* The geometry helpers called directly, on buffers                        *)
(***************************************************************************)
\* how many times the pipeline is run on the same arguments
MaxRuns == 2

NoCall == [op |-> "none", heap |-> <<>>, ins |-> {}, outs |-> {}, raised |-> "none",
           divzero |-> FALSE]
NoBuild == [refs |-> <<>>, loc |-> <<>>]

\* argument values of the direct calls
ASet == {Zero, One}
BSet == {Zero, b0, Rat(1, 1, 60), Rat(1, 1, 200)}
CSet == {Zero, c0, Rat(1, 1, 307)}
DSet == {Zero, d0}
WidthSet == {width, Zero, Int2Num(-1)}
SampleSet == {s, array([i \in 1..NS |-> Int2Num(10 * i)])}

\* lateral functions y(s) = k*s, y'(s) = k: none given, one that hands back the
\* same two arrays on every call ("cached"), one that builds new arrays ("fresh")
LatSet ==
    {[kind |-> "none", k |-> Zero]} \cup
    [kind : {"cached", "fresh"}, k : {Rat(3, 4, 0), Rat(1, 2, 0)}]

lat_y(sv, k) == array([i \in 1..Len(sv) |-> Mul(k, sv[i])])
lat_dy(sv, k) == array([i \in 1..Len(sv) |-> k])

\* lateral_func(s): the buffers of y and y' and the heap after the call
lateral_func(h, f) ==
    IF f.lat.kind = "cached" THEN [heap |-> h, y |-> f.y, dy |-> f.dy]
    ELSE [heap |-> h \o <<lat_y(h[f.s], f.lat.k), lat_dy(h[f.s], f.lat.k)>>,
          y |-> Len(h) + 1, dy |-> Len(h) + 2]

\* A cached lateral function has its derivative array divided again on every
\* run; with a moderate nonzero slope dz/ds the radicands of the later runs
\* outgrow TLC's integers, so it is called with a flat or a very steep profile.
Representable(lat, b, c, d) == lat.kind = "cached" => b # b0 /\ c # c0 /\ d # d0

InitGeom ==
    \E sv \in SampleSet, a \in ASet, b \in BSet, c \in CSet, d \in DSet,
       w \in WidthSet, lat \in LatSet :
        /\ Representable(lat, b, c, d)
        /\ heap = IF lat.kind = "cached"
                  THEN <<sv, lat_y(sv, lat.k), lat_dy(sv, lat.k)>> ELSE <<sv>>
        /\ fn = [s |-> 1, a |-> a, b |-> b, c |-> c, d |-> d, width |-> w, lat |-> lat,
                 y |-> IF lat.kind = "cached" THEN 2 ELSE 0,
                 dy |-> IF lat.kind = "cached" THEN 3 ELSE 0]
        /\ pc = "ready"
        /\ cur = NoBuild
        /\ outs = <<>>
        /\ last = NoCall
        /\ ui = ui0

\* what build_centerline leaves behind: r its result, lf what lateral_func
\* handed back (on heap lf.heap)
AfterBuild(given, lf, r) ==
    LET \* Ty = dYds names the buffer lateral_func returned; Ty /= Tnorm writes it
        h2   == IF given THEN [lf.heap EXCEPT ![lf.dy] = r.Ty] ELSE lf.heap
        n    == Len(h2)
        \* Yc is the buffer lateral_func returned, or a new np.zeros_like(s)
        refs == IF given
                THEN [Xc |-> n + 1, Yc |-> lf.y, Zc |-> n + 2,
                      Lx |-> n + 3, Ly |-> n + 4, Lz |-> n + 5]
                ELSE [Xc |-> n + 1, Yc |-> n + 2, Zc |-> n + 3,
                      Lx |-> n + 4, Ly |-> n + 5, Lz |-> n + 6]
        new  == IF given THEN <<r.Xc, r.Zc, r.Lx, r.Ly, r.Lz>>
                ELSE <<r.Xc, r.Yc, r.Zc, r.Lx, r.Ly, r.Lz>>
    IN  /\ heap' = h2 \o new
        /\ cur' = [refs |-> refs, loc |-> r]
        /\ last' = [op |-> "build_centerline", heap |-> lf.heap,
                    ins |-> IF given THEN {fn.s, lf.y, lf.dy} ELSE {fn.s},
                    outs |-> {refs[f] : f \in DOMAIN refs},
                    raised |-> "none",
                    divzero |-> \E i \in 1..Len(r.Tnorm) :
                                    IsZero(r.Tnorm[i]) \/ IsZero(r.Lnorm[i])]

\* Xc, Yc, Zc, Lx, Ly, Lz = build_centerline(s, a, b, c, d, lateral_func)
CallBuild ==
    /\ pc = "ready"
    /\ Len(outs) < MaxRuns
    /\ \E lf \in {IF fn.lat.kind # "none" THEN lateral_func(heap, fn)
                  ELSE [heap |-> heap, y |-> 0, dy |-> 0]} :
       \E r \in {build_centerline(lf.heap[fn.s], fn.a, fn.b, fn.c, fn.d,
                    IF fn.lat.kind # "none"
                    THEN [given |-> TRUE, y |-> lf.heap[lf.y], dy |-> lf.heap[lf.dy]]
                    ELSE [given |-> FALSE])} :
           AfterBuild(fn.lat.kind # "none", lf, r)
    /\ pc' = "built"
    /\ UNCHANGED <<fn, outs, ui>>

\* Xmesh, Ymesh, Zmesh = make_road_mesh(Xc, Yc, Zc, Lx, Ly, Lz, width)
CallMesh ==
    /\ pc = "built"
    /\ \E m \in {make_road_mesh(heap[cur.refs.Xc], heap[cur.refs.Yc], heap[cur.refs.Zc],
                                heap[cur.refs.Lx], heap[cur.refs.Ly], heap[cur.refs.Lz],
                                fn.width)} :
        /\ heap' = heap \o <<m.X, m.Y, m.Z>>
        /\ outs' = Append(outs,
               [cl |-> [f \in DOMAIN cur.refs |-> heap[cur.refs[f]]], loc |-> cur.loc,
                mesh |-> m,
                refs |-> [X |-> Len(heap) + 1, Y |-> Len(heap) + 2, Z |-> Len(heap) + 3]])
        /\ last' = [op |-> "make_road_mesh", heap |-> heap,
                    ins |-> {cur.refs[f] : f \in DOMAIN cur.refs},
                    outs |-> {Len(heap) + 1, Len(heap) + 2, Len(heap) + 3},
                    raised |-> "none", divzero |-> FALSE]
    /\ pc' = "ready"
    /\ UNCHANGED <<fn, cur, ui>>

NoGeom ==
    /\ heap = <<s>>
    /\ fn = [s |-> 1, a |-> a0, b |-> b0, c |-> c0, d |-> d0, width |-> width,
             lat |-> [kind |-> "none", k |-> Zero], y |-> 0, dy |-> 0]
    /\ pc = "ready"
    /\ cur = NoBuild
    /\ outs = <<>>
    /\ last = NoCall

\* the running program: plt.show() dispatching slider and button events
Init == NoGeom /\ ui = ui0
Next == (\E k \in Sliders : \E v \in SliderVals[k] : SliderChanged(k, v)) \/ ResetClicked \/ Draw
Spec == Init /\ [][Next]_vars

\* the helpers called directly, the pipeline run MaxRuns times on one argument list
NextGeom == CallBuild \/ CallMesh
SpecGeom == InitGeom /\ [][NextGeom]_vars

(***************************************************************************)
(* Properties                                                              *)
(***************************************************************************)
Runs == 1..Len(outs)
Cols(o) == 1..Len(o.cl.Xc)

\* the frame of run o is non-degenerate at column i: the candidate U x T has
\* a finite norm that is not below the threshold
Valid(o, i) == IsFinite(o.loc.Lnorm0[i]) /\ ~Less(o.loc.Lnorm0[i], small)

\* x*x + y*y + z*z and x*u + y*v + z*w
Sq3(x, y, z) == Add(Add(Mul(x, x), Mul(y, y)), Mul(z, z))
Dot3(x, y, z, u, v, w) == Add(Add(Mul(x, u), Mul(y, v)), Mul(z, w))

\* squared distance between the two rail points of column i of run o
Dist2(o, i) ==
    Sq3(Sub(o.mesh.X[1][i], o.mesh.X[2][i]), Sub(o.mesh.Y[1][i], o.mesh.Y[2][i]),
        Sub(o.mesh.Z[1][i], o.mesh.Z[2][i]))

\* the cubic and its derivative at one sample, term by term
Elevation(x, a, b, c, d) ==
    Add(Add(Add(a, Mul(b, x)), Mul(Mul(c, x), x)), Mul(Mul(Mul(d, x), x), x))
Slope(x, b, c, d) == Add(Add(b, Mul(Add(c, c), x)), Mul(Mul(Add(Add(d, d), d), x), x))

\* C1: make_road_mesh called with a width that is zero or negative reports
\* InvalidWidth and produces no mesh.  The code has no such check: the call
\* completes and returns three arrays, so this statement fails.
C1_InvalidWidth ==
    (last.op = "make_road_mesh" /\ ~Less(Zero, fn.width))
        => (last.raised = "InvalidWidth" /\ last.outs = {})

\* C2: build_centerline's elevation and derivative arrays have the length of
\* s, their i-th entries are a + b*s_i + c*s_i^2 + d*s_i^3 and
\* b + 2c*s_i + 3d*s_i^2, and the returned Xc holds the values of s.
C2_CurveEvaluation ==
    last.op = "build_centerline" =>
        LET sv == heap[fn.s]
            r  == cur.loc
        IN  /\ Len(r.Zc) = Len(sv) /\ Len(r.dZds0) = Len(sv) /\ Len(r.Xc) = Len(sv)
            /\ \A i \in 1..Len(sv) :
                /\ r.Zc[i] = Elevation(sv[i], fn.a, fn.b, fn.c, fn.d)
                /\ r.dZds0[i] = Slope(sv[i], fn.b, fn.c, fn.d)
                /\ r.Xc[i] = sv[i]
            /\ heap[cur.refs.Zc] = r.Zc
            /\ heap[cur.refs.Xc] = sv

\* C2 witness: the program's own coefficients on s = 0, 50, 100 give
\* z(50) = 2.25 and dz/ds(50) = 0.045
C2_Witness ==
    /\ last.op = "build_centerline"
    /\ heap[fn.s] = s
    /\ <<fn.a, fn.b, fn.c, fn.d>> = <<a0, b0, c0, d0>>
    /\ cur.loc.Zc[2] = Rat(225, 1, -2)
    /\ cur.loc.dZds0[2] = Rat(45, 1, -3)

\* C3: every coordinate grid make_road_mesh returns has exactly 2 rows of N
\* columns; row 1 is centerline + (w/2)*L and row 2 is centerline - (w/2)*L.
C3_MeshRows ==
    \A k \in Runs :
        LET o    == outs[k]
            half == Div(fn.width, Two)
            N    == Len(heap[fn.s])
        IN  \A g \in {<<o.mesh.X, o.cl.Xc, o.cl.Lx, o.refs.X>>,
                      <<o.mesh.Y, o.cl.Yc, o.cl.Ly, o.refs.Y>>,
                      <<o.mesh.Z, o.cl.Zc, o.cl.Lz, o.refs.Z>>} :
                /\ Len(g[1]) = 2 /\ Len(g[1][1]) = N /\ Len(g[1][2]) = N
                /\ \A i \in 1..N :
                    /\ g[1][1][i] = Add(g[2][i], Mul(half, g[3][i]))
                    /\ g[1][2][i] = Sub(g[2][i], Mul(half, g[3][i]))
                /\ heap[g[4]] = g[1]

\* C3 witness: with y(s) = 0.75 s on a flat road L = (-0.6, 0.8, 0); at s = 0
\* and width 6 the left rail is at x = -1.8, y = 2.4, the right at x = 1.8, y = -2.4
C3_Witness ==
    \E k \in Runs :
        /\ fn.width = width
        /\ outs[k].cl.Xc[1] = Zero
        /\ outs[k].mesh.X[1][1] = Rat(-18, 1, -1) /\ outs[k].mesh.X[2][1] = Rat(18, 1, -1)
        /\ outs[k].mesh.Y[1][1] = Rat(24, 1, -1) /\ outs[k].mesh.Y[2][1] = Rat(-24, 1, -1)

\* C4: at every column with a non-degenerate frame, left - right = width * L
\* component-wise with |L| = 1, so the two rail points are width apart.
C4_RailDistance ==
    \A k \in Runs :
        LET o == outs[k]
        IN  \A i \in Cols(o) :
                Valid(o, i) =>
                    /\ Sub(o.mesh.X[1][i], o.mesh.X[2][i]) = Mul(fn.width, o.cl.Lx[i])
                    /\ Sub(o.mesh.Y[1][i], o.mesh.Y[2][i]) = Mul(fn.width, o.cl.Ly[i])
                    /\ Sub(o.mesh.Z[1][i], o.mesh.Z[2][i]) = Mul(fn.width, o.cl.Lz[i])
                    /\ Sq3(o.cl.Lx[i], o.cl.Ly[i], o.cl.Lz[i]) = One
                    /\ Dist2(o, i) = Mul(fn.width, fn.width)
                    /\ Less(Zero, fn.width) => Sqrt(Dist2(o, i)) = fn.width

\* C4 witness: a sloped road with a lateral offset, L has nonzero x and y
\* components, and the rails of the finished mesh are 6 apart
C4_Witness ==
    \E k \in Runs :
        \E i \in Cols(outs[k]) :
            /\ Valid(outs[k], i)
            /\ fn.width = width
            /\ fn.b = b0
            /\ ~IsZero(outs[k].cl.Lx[i]) /\ ~IsZero(outs[k].cl.Ly[i])
            /\ Sqrt(Dist2(outs[k], i)) = width

\* C5: two runs of build_centerline -> make_road_mesh on the same arguments
\* return the same arrays.  With a lateral function that hands back the same
\* arrays on each call the first run divides its dY/ds array in place, so the
\* second run starts from other values: this statement fails.
C5_Idempotent ==
    Len(outs) >= 2 => (outs[1].cl = outs[2].cl /\ outs[1].mesh = outs[2].mesh)

\* C6: a call leaves every input buffer with the values it had before the
\* call, and no returned buffer is an input buffer.  build_centerline writes
\* Ty /= Tnorm into the lateral function's dY/ds array and returns its y array
\* as Yc: this statement fails.
C6_InputsUnchanged ==
    last.op # "none" =>
        /\ \A r \in last.ins : heap[r] = last.heap[r]
        /\ last.ins \cap last.outs = {}

\* C7: at every sample with a non-degenerate frame the returned left vector
\* is orthogonal to the tangent, L . T = 0.
C7_Orthogonal ==
    last.op = "build_centerline" =>
        \A i \in 1..Len(cur.loc.Xc) :
            Valid(cur, i) =>
                Dot3(heap[cur.refs.Lx][i], heap[cur.refs.Ly][i], heap[cur.refs.Lz][i],
                     cur.loc.Tx[i], cur.loc.Ty[i], cur.loc.Tz[i]) = Zero

\* C7 witness: a sample where dy/ds and dz/ds are both nonzero and the frame
\* is non-degenerate
C7_Witness ==
    /\ last.op = "build_centerline"
    /\ \E i \in 1..Len(cur.loc.Xc) :
        /\ Valid(cur, i)
        /\ ~IsZero(cur.loc.Ty[i]) /\ ~IsZero(cur.loc.Tz[i])
        /\ ~IsZero(cur.loc.Lx[i])

\* C8: no call raises or divides by zero; where the norm of L' = U x T is below
\* 1e-8 the divisor is exactly 1 and the returned L is L', elsewhere the
\* divisor is the norm; where L' = 0 both rail points of the finished mesh are
\* the centerline point.
C8_DegenerateFallback ==
    /\ last.raised = "none" /\ ~last.divzero
    /\ cur # NoBuild =>
        \A i \in 1..Len(cur.loc.Xc) :
            LET r == cur.loc
            IN  IF Less(r.Lnorm0[i], small)
                THEN /\ r.Lnorm[i] = One
                     /\ <<r.Lx[i], r.Ly[i], r.Lz[i]>> = <<r.Lpx[i], r.Lpy[i], r.Lpz[i]>>
                ELSE /\ r.Lnorm[i] = r.Lnorm0[i]
                     /\ r.Lx[i] = Div(r.Lpx[i], r.Lnorm0[i])
                     /\ r.Ly[i] = Div(r.Lpy[i], r.Lnorm0[i])
                     /\ r.Lz[i] = Div(r.Lpz[i], r.Lnorm0[i])
    /\ \A k \in Runs :
        LET o == outs[k]
        IN  \A i \in Cols(o) :
                <<o.loc.Lpx[i], o.loc.Lpy[i], o.loc.Lpz[i]>> = <<Zero, Zero, Zero>> =>
                    /\ o.mesh.X[1][i] = o.cl.Xc[i] /\ o.mesh.X[2][i] = o.cl.Xc[i]
                    /\ o.mesh.Y[1][i] = o.cl.Yc[i] /\ o.mesh.Y[2][i] = o.cl.Yc[i]
                    /\ o.mesh.Z[1][i] = o.cl.Zc[i] /\ o.mesh.Z[2][i] = o.cl.Zc[i]

\* C8 witness: a finished run with a column where L' = 0 (the tangent's norm
\* overflowed), divided by 1, whose rail points are the centerline point
C8_Witness ==
    \E k \in Runs :
        \E i \in Cols(outs[k]) :
            /\ IsInf(outs[k].loc.Tnorm[i])
            /\ <<outs[k].loc.Lpx[i], outs[k].loc.Lpy[i], outs[k].loc.Lpz[i]>>
                   = <<Zero, Zero, Zero>>
            /\ outs[k].loc.Lnorm0[i] = Zero /\ outs[k].loc.Lnorm[i] = One
            /\ outs[k].cl.Ly[i] = Zero
            /\ outs[k].mesh.Y[1][i] = outs[k].cl.Yc[i]
            /\ outs[k].mesh.Y[2][i] = outs[k].cl.Yc[i]

\* the artists the module's names refer to show the road of coefficients
\* a, b, c, d on the fixed s and width
Displayed(a, b, c, d) ==
    \E g \in {build_centerline(s, a, b, c, d, [given |-> FALSE])} :
    \E m \in {make_road_mesh(g.Xc, g.Yc, g.Zc, g.Lx, g.Ly, g.Lz, width)} :
        /\ \E x \in ui.artists : x.id = ui.road_surf /\ x.data = <<m.X, m.Y, m.Z>>
        /\ \E x \in ui.artists : x.id = ui.center_line /\ x.data = <<g.Xc, g.Yc, g.Zc>>
        /\ \E x \in ui.artists : x.id = ui.lane_mark /\ x.data = <<g.Xc, g.Yc, lift(g.Zc)>>

\* C9: after every slider change and every Reset the surface, centerline and
\* lane marking on display are the geometry of the current slider values, and
\* after Reset the sliders are at a0, b0, c0, d0.
C9_DisplayCurrent ==
    /\ Displayed(ui.val.a, ui.val.b, ui.val.c, ui.val.d)
    /\ ui.event = "clicked" => ui.val = valinit

\* C9 witness: Reset has run its update and the initial road is on display
C9_Witness ==
    /\ ui.event = "clicked"
    /\ ui.redraw
    /\ ui.val = valinit
    /\ Displayed(a0, b0, c0, d0)

\* C10: the axes hold exactly three artists, one surface and two lines, and
\* road_surf, center_line and lane_mark refer to them.
C10_ThreeArtists ==
    /\ Cardinality(ui.artists) = 3
    /\ Cardinality(ids(ui.artists)) = 3
    /\ Cardinality({x \in ui.artists : x.kind = "surface"}) = 1
    /\ Cardinality({x \in ui.artists : x.kind = "line"}) = 2
    /\ \E x \in ui.artists : x.id = ui.road_surf /\ x.kind = "surface"
    /\ \E x \in ui.artists : x.id = ui.center_line /\ x.kind = "line"
    /\ \E x \in ui.artists : x.id = ui.lane_mark /\ x.kind = "line"
    /\ ui.center_line # ui.lane_mark

\* C10 witness: an update has replaced the three artists of the initial plot
C10_Witness ==
    /\ ui.event = "changed"
    /\ Cardinality(ui.artists) = 3
    /\ ui.val # valinit
    /\ ui.road_surf \in ids(ui.artists)
    /\ ui.road_surf # ui0.road_surf
====
